---------------------------- MODULE Spec2Model ----------------------------
(***************************************************************************)
(* Model of the Claude Code usage collector of token_dash                  *)
(* (src/collectors/claude_code_collector.py) together with the part of     *)
(* BaseCollector (src/collectors/base.py) that drives it.                  *)
(*                                                                         *)
(* The file system (session logs, the stats-cache snapshot, the state      *)
(* file) is the environment; the engine's fields are _processed_uuids and  *)
(* _last_stats_hash.  One action per operation: BaseCollector.run (which   *)
(* calls collect() and write_points()), engine construction after a        *)
(* process restart, a crash inside _save_state, and the environment's      *)
(* writes.  Variables marked "history" record what the program did; the    *)
(* program never reads them.                                               *)
(***************************************************************************)
EXTENDS Naturals, Sequences, FiniteSets

(***************************************************************************)
(* Bounds of the model.                                                    *)
(***************************************************************************)
\* number of session log files under projects/
NumFiles == 2
\* number of changes the environment makes to the files the engine reads
\* (lines appended, snapshot rewrites, permission changes)
MaxWrites == 2
\* number of process restarts (engine constructions after the first)
MaxRestarts == 1

\* _save_state keeps 10000 identifiers ([-10000:]); the model scales the cap
\* down so that "more identifiers than the cap" is reachable.
SaveCap == 1

Files == 1..NumFiles
Ids == 1..MaxWrites
\* entry.get("uuid") of a record without (or with an empty) uuid
NoUuid == 0

(***************************************************************************)
(* Session log lines.  A line is described by what _parse_session_file     *)
(* inspects: whether it parses as JSON and to what, its "type", its        *)
(* "uuid", message.usage and sessionId.                                    *)
(*   json  : "object" | "invalid" (not JSON) | "nonobject" (JSON list,     *)
(*           number, string: has no .get)                                  *)
(*   usage : "dict" (non-empty mapping) | "null" (absent or null) |        *)
(*           "empty" ({}) | "nondict" (truthy value without .get)          *)
(*   sid   : "str" (a string, or absent) | "nonstr" (null or a number:     *)
(*           cannot be sliced)                                             *)
(*   ts    : the "timestamp" of the record: "iso_z" (an ISO-8601 string    *)
(*           with a trailing Z) | "epoch_ms" (a number of milliseconds) |  *)
(*           "absent" | "unparseable" (a string fromisoformat rejects)     *)
(*   input_tokens, output_tokens : the counters of message.usage           *)
(***************************************************************************)
GoodLine(u) ==
    [json |-> "object", type |-> "assistant", uuid |-> u, usage |-> "dict", sid |-> "str",
     ts |-> "iso_z", input_tokens |-> u, output_tokens |-> 2 * u]
BadSidLine(u) ==
    [json |-> "object", type |-> "assistant", uuid |-> u, usage |-> "dict", sid |-> "nonstr",
     ts |-> "iso_z", input_tokens |-> u, output_tokens |-> 2 * u]
InvalidLine ==
    [json |-> "invalid", type |-> "user", uuid |-> NoUuid, usage |-> "null", sid |-> "str",
     ts |-> "absent", input_tokens |-> 0, output_tokens |-> 0]

\* a record whose timestamp is not an ISO-8601 string
TimestampKinds == {"epoch_ms", "absent", "unparseable"}
TimestampedLine(u, ts) == [GoodLine(u) EXCEPT !.ts = ts]

\* a second record with the uuid u (a session resumed or copied: the record
\* is written again, its counters moved on)
MaxDuplicates == 1
DuplicateLine(u) == [GoodLine(u) EXCEPT !.output_tokens = 2 * u + 1]

\* the first bytes of the record u, the write of its line not yet finished:
\* json.loads rejects them
PartialLine(u) == [GoodLine(u) EXCEPT !.json = "invalid"]

\* the lines the environment may append; u is the fresh identifier of the line
LineShapes(u) == {GoodLine(u), BadSidLine(u), InvalidLine}

\* spec.md section 3: type = assistant, non-null usage, non-empty identifier
Eligible(line) ==
    /\ line.json = "object"
    /\ line.type = "assistant"
    /\ line.usage # "null"
    /\ line.uuid # NoUuid

(***************************************************************************)
(* The snapshot file stats-cache.json.  Its content is a byte string,      *)
(* named here by a number, with what json.loads makes of it.               *)
(***************************************************************************)
Absent == [bytes |-> 0, json |-> "absent", modelUsage |-> <<>>, dailyActivity |-> <<>>]
Unreadable == [bytes |-> 0, json |-> "unreadable", modelUsage |-> <<>>, dailyActivity |-> <<>>]
SnapOneModel ==
    [bytes |-> 1, json |-> "object",
     modelUsage |-> <<[name |-> "claude-opus-4-5", shape |-> "dict",
                       inputTokens |-> 1000000, outputTokens |-> 500000]>>,
     dailyActivity |-> <<>>]
SnapTwoModels ==
    [bytes |-> 2, json |-> "object",
     modelUsage |-> <<[name |-> "claude-opus-4-5", shape |-> "dict",
                       inputTokens |-> 1000000, outputTokens |-> 500000],
                      [name |-> "claude-sonnet-4", shape |-> "dict",
                       inputTokens |-> 1, outputTokens |-> 0]>>,
     dailyActivity |-> <<[date |-> "ok", day |-> 1]>>]
SnapBadEntry ==
    [bytes |-> 3, json |-> "object",
     modelUsage |-> <<[name |-> "claude-opus-4-5", shape |-> "dict",
                       inputTokens |-> 1000000, outputTokens |-> 500000],
                      [name |-> "claude-sonnet-4", shape |-> "nondict",
                       inputTokens |-> 0, outputTokens |-> 0]>>,
     dailyActivity |-> <<[date |-> "ok", day |-> 1]>>]
SnapInvalidJson ==
    [bytes |-> 4, json |-> "invalid", modelUsage |-> <<>>, dailyActivity |-> <<>>]

SnapContents == {SnapOneModel, SnapTwoModels, SnapBadEntry, SnapInvalidJson}

\* Snapshots with several dailyActivity entries.  An entry is described by
\* its "date": "ok" (a string strptime("%Y-%m-%d") parses, of the day day) |
\* "unparseable" (a string it rejects) | "absent" (missing, null or empty) |
\* "nonstr" (a number: strptime raises TypeError).
SnapDailies ==
    [bytes |-> 5, json |-> "object",
     modelUsage |-> <<[name |-> "claude-opus-4-5", shape |-> "dict",
                       inputTokens |-> 1000000, outputTokens |-> 500000]>>,
     dailyActivity |-> <<[date |-> "ok", day |-> 1], [date |-> "unparseable", day |-> 0],
                         [date |-> "absent", day |-> 0], [date |-> "ok", day |-> 1],
                         [date |-> "ok", day |-> 2]>>]
SnapDailiesUnparseableFirst ==
    [bytes |-> 6, json |-> "object", modelUsage |-> <<>>,
     dailyActivity |-> <<[date |-> "unparseable", day |-> 0], [date |-> "ok", day |-> 2]>>]
SnapDailiesNonString ==
    [bytes |-> 7, json |-> "object", modelUsage |-> <<>>,
     dailyActivity |-> <<[date |-> "ok", day |-> 1], [date |-> "nonstr", day |-> 0],
                         [date |-> "ok", day |-> 2]>>]

DailyContents == {SnapDailies, SnapDailiesUnparseableFirst, SnapDailiesNonString}

\* _last_stats_hash = None
None == 0
\* hashlib.md5(content.encode()).hexdigest(): a digest of the bytes, taken to
\* be collision-free on the contents of the model
Md5(bytes) == 100 + bytes


(***************************************************************************)
(* UsageEvent (TokenUsagePoint).  uuid names the record a session event    *)
(* was made from: the program's event does not carry it, the model keeps   *)
(* it to tell the events apart.  timestamp is "source" (the instant the    *)
(* record or the daily entry gives) or "now" (datetime.now when the event  *)
(* was made).                                                              *)
(***************************************************************************)
\* the constructor's total_tokens taken as supplied, without the fallback
TotalTokensAsSupplied(total_tokens, input_tokens, output_tokens) == total_tokens

\* TokenUsagePoint.__init__: "total_tokens or (input_tokens + output_tokens)"
TotalTokens(total_tokens, input_tokens, output_tokens) ==
    IF total_tokens # 0 THEN total_tokens ELSE input_tokens + output_tokens

\* lines 294-299: fromisoformat(timestamp_str.replace("Z", "+00:00")) inside
\* "try ... except: timestamp = datetime.now(timezone.utc)".  A number and
\* None have no .replace (AttributeError), fromisoformat rejects the
\* unparseable string (ValueError).
ParseTimestamp(ts) == IF ts = "iso_z" THEN "source" ELSE "now"

\* the engine passes no total_tokens: the constructor's default 0 stands
SessionEvent(line) ==
    [data_type |-> "message", model |-> "unknown", uuid |-> line.uuid, date |-> "none",
     timestamp |-> ParseTimestamp(line.ts),
     input_tokens |-> line.input_tokens, output_tokens |-> line.output_tokens,
     total_tokens |-> TotalTokens(0, line.input_tokens, line.output_tokens)]
AggregateEvent(entry) ==
    [data_type |-> "aggregate", model |-> entry.name, uuid |-> NoUuid, date |-> "none",
     timestamp |-> "now",
     input_tokens |-> entry.inputTokens, output_tokens |-> entry.outputTokens,
     total_tokens |-> TotalTokens(0, entry.inputTokens, entry.outputTokens)]
\* lines 198-199: strptime(date_str, "%Y-%m-%d").replace(tzinfo=timezone.utc),
\* the first instant of the day in UTC
DailyEvent(daily) ==
    [data_type |-> "daily_activity", model |-> "claude-code-activity", uuid |-> NoUuid,
     date |-> daily.date, timestamp |-> "midnight_utc", day |-> daily.day,
     input_tokens |-> 0, output_tokens |-> 0, total_tokens |-> TotalTokens(0, 0, 0)]

Range(seq) == {seq[i] : i \in 1..Len(seq)}
\* the identifiers of the session events of a batch
BatchUuids(batch) == {batch[i].uuid : i \in {j \in 1..Len(batch) : batch[j].data_type = "message"}}
AggregatePart(batch) == SelectSeq(batch, LAMBDA e : e.data_type # "message")
SessionPart(batch) == SelectSeq(batch, LAMBDA e : e.data_type = "message")

(***************************************************************************)
(* _parse_session_file, one line: "skip" (continue), "raise" (an exception *)
(* leaves the function) or "emit" (a point is appended and the uuid is     *)
(* added to _processed_uuids).  The tests are in the code's order.         *)
(***************************************************************************)
\* the test of lines 273-275 left out: every record with a uuid passes
AlreadySeenNever(line, seen) == line.uuid = NoUuid

\* lines 273-275: "if not uuid or uuid in self._processed_uuids: continue"
AlreadySeen(line, seen) == line.uuid = NoUuid \/ line.uuid \in seen

\* json.JSONDecodeError of line 266 not caught: a line that is not JSON ends the parse
LineStepInvalidRaises(line, seen) ==
    IF line.json \in {"invalid", "nonobject"} THEN "raise"
    ELSE IF line.type # "assistant" THEN "skip"
    ELSE IF AlreadySeen(line, seen) THEN "skip"
    ELSE IF line.usage \in {"null", "empty"} THEN "skip"
    ELSE IF line.usage = "nondict" THEN "raise"
    ELSE IF line.sid = "nonstr" THEN "raise"
    ELSE "emit"

\* the try of lines 296-299 left out: a timestamp that is not an ISO-8601
\* string raises out of the parse
LineStepTimestampRaises(line, seen) ==
    IF line.json = "invalid" THEN "skip"
    ELSE IF line.json = "nonobject" THEN "raise"
    ELSE IF line.type # "assistant" THEN "skip"
    ELSE IF AlreadySeen(line, seen) THEN "skip"
    ELSE IF line.usage \in {"null", "empty"} THEN "skip"
    ELSE IF line.usage = "nondict" THEN "raise"
    ELSE IF line.ts # "iso_z" THEN "raise"
    ELSE IF line.sid = "nonstr" THEN "raise"
    ELSE "emit"

\* whatever the timestamp is, lines 294-299 do not raise: ParseTimestamp
LineStep(line, seen) ==
    IF line.json = "invalid" THEN "skip"                \* json.JSONDecodeError: continue
    ELSE IF line.json = "nonobject" THEN "raise"        \* entry.get: AttributeError
    ELSE IF line.type # "assistant" THEN "skip"
    ELSE IF AlreadySeen(line, seen) THEN "skip"
    ELSE IF line.usage \in {"null", "empty"} THEN "skip" \* "if not usage: continue"
    ELSE IF line.usage = "nondict" THEN "raise"         \* usage.get: AttributeError
    ELSE IF line.sid = "nonstr" THEN "raise"            \* entry.get("sessionId", ...)[:8]: TypeError
    ELSE "emit"

(***************************************************************************)
(* _parse_session_file over the lines from i on.  marked is the sequence   *)
(* of uuids added to _processed_uuids so far in this scan (of this and of  *)
(* the earlier files), seen0 the set at the start of the scan.  An         *)
(* exception loses the points of the file; the uuids already added stay.   *)
(***************************************************************************)
RECURSIVE ParseSessionFile(_, _, _, _, _)
ParseSessionFile(lines, i, points, marked, seen0) ==
    IF i > Len(lines)
    THEN [raised |-> FALSE, points |-> points, marked |-> marked]
    ELSE LET step == LineStep(lines[i], seen0 \cup Range(marked))
         IN  IF step = "raise"
             THEN [raised |-> TRUE, points |-> <<>>, marked |-> marked]
             ELSE IF step = "emit"
             THEN ParseSessionFile(lines, i + 1, Append(points, SessionEvent(lines[i])),
                                   Append(marked, lines[i].uuid), seen0)
             ELSE ParseSessionFile(lines, i + 1, points, marked, seen0)

(***************************************************************************)
(* _collect_from_sessions over the files f, f+1, ..., NumFiles (rglob's    *)
(* order is taken to be the files' numbering).  A file that cannot be      *)
(* opened, or whose parse raises, contributes no points.                   *)
(***************************************************************************)
\* the try of lines 241-246 around the whole loop: a file that cannot be
\* opened ends the scan of the files
RECURSIVE CollectFromSessionsStopsAtUnreadable(_, _, _, _, _, _)
CollectFromSessionsStopsAtUnreadable(f, fileLines, noRead, points, marked, seen0) ==
    IF f > NumFiles \/ f \in noRead
    THEN [points |-> points, marked |-> marked]
    ELSE LET r == ParseSessionFile(fileLines[f], 1, <<>>, marked, seen0)
         IN  CollectFromSessionsStopsAtUnreadable(f + 1, fileLines, noRead,
                                 IF r.raised THEN points ELSE points \o r.points,
                                 r.marked, seen0)

RECURSIVE CollectFromSessions(_, _, _, _, _, _)
CollectFromSessions(f, fileLines, noRead, points, marked, seen0) ==
    IF f > NumFiles
    THEN [points |-> points, marked |-> marked]
    ELSE IF f \in noRead
    THEN CollectFromSessions(f + 1, fileLines, noRead, points, marked, seen0)
    ELSE LET r == ParseSessionFile(fileLines[f], 1, <<>>, marked, seen0)
         IN  CollectFromSessions(f + 1, fileLines, noRead,
                                 IF r.raised THEN points ELSE points \o r.points,
                                 r.marked, seen0)


(***************************************************************************)
(* _collect_from_stats_cache.  The per-model loop stops at the first entry *)
(* whose value is not a mapping (usage.get raises); the except clause then *)
(* returns the points made so far.                                         *)
(***************************************************************************)
\* lines 158-192.  An entry of shape "dict" is a mapping whose counters are
\* numbers or missing; on any other entry the loop body raises.
RECURSIVE ModelPoints(_, _, _)
ModelPoints(entries, i, points) ==
    IF i > Len(entries)
    THEN [raised |-> FALSE, points |-> points]
    ELSE IF entries[i].shape # "dict"
    THEN [raised |-> TRUE, points |-> points]
    ELSE ModelPoints(entries, i + 1, Append(points, AggregateEvent(entries[i])))

\* the "except ValueError: continue" of lines 217-218 left out: a date that
\* strptime rejects ends the loop
RECURSIVE DailyPointsStopAtBadDate(_, _, _)
DailyPointsStopAtBadDate(entries, i, points) ==
    IF i > Len(entries) \/ entries[i].date \in {"nonstr", "unparseable"}
    THEN points
    ELSE DailyPointsStopAtBadDate(entries, i + 1,
                     IF entries[i].date = "ok"
                     THEN Append(points, DailyEvent(entries[i]))
                     ELSE points)

\* lines 195-218: an entry without a date, or whose date strptime rejects
\* (ValueError: continue), makes no point.  A date that is not a string
\* makes strptime raise TypeError, which leaves the loop for the except
\* clause of lines 224-225: the points made so far are returned.
RECURSIVE DailyPoints(_, _, _)
DailyPoints(entries, i, points) ==
    IF i > Len(entries) \/ entries[i].date = "nonstr"
    THEN points
    ELSE DailyPoints(entries, i + 1,
                     IF entries[i].date = "ok"
                     THEN Append(points, DailyEvent(entries[i]))
                     ELSE points)

\* the comparison of lines 150-153 left out: the snapshot always counts as changed
StatsUnchangedNever(file, hash) == FALSE

\* lines 150-153: "if content_hash == self._last_stats_hash: return points"
StatsUnchanged(file, hash) == Md5(file.bytes) = hash

\* the fingerprint taken and recorded before json.loads (line 147 after line
\* 155): content that is not JSON advances it
CollectFromStatsCacheHashFirst(file, hash) ==
    IF file.json \in {"absent", "unreadable"}
    THEN [points |-> <<>>, hash |-> hash]
    ELSE IF StatsUnchanged(file, hash)
    THEN [points |-> <<>>, hash |-> hash]
    ELSE IF file.json \in {"invalid", "nonobject"}
    THEN [points |-> <<>>, hash |-> Md5(file.bytes)]
    ELSE LET m == ModelPoints(file.modelUsage, 1, <<>>)
         IN  [points |-> IF m.raised THEN m.points
                         ELSE DailyPoints(file.dailyActivity, 1, m.points),
              hash |-> Md5(file.bytes)]

\* the result: the points and the new value of _last_stats_hash
CollectFromStatsCache(file, hash) ==
    IF file.json \in {"absent", "unreadable", "invalid"}
    THEN [points |-> <<>>, hash |-> hash]       \* not found, or open/read/json.loads raised
    ELSE IF StatsUnchanged(file, hash)
    THEN [points |-> <<>>, hash |-> hash]
    ELSE IF file.json = "nonobject"
    THEN [points |-> <<>>, hash |-> Md5(file.bytes)]   \* stats.get: AttributeError
    ELSE LET m == ModelPoints(file.modelUsage, 1, <<>>)
         IN  [points |-> IF m.raised THEN m.points
                         ELSE DailyPoints(file.dailyActivity, 1, m.points),
              hash |-> Md5(file.bytes)]

(***************************************************************************)
(* The state file token_dash_state.json.                                   *)
(***************************************************************************)
NoStateFile == [kind |-> "absent", processed_uuids |-> {}, last_stats_hash |-> None]
\* a file that json.load rejects: empty or cut short
CorruptStateFile == [kind |-> "corrupt", processed_uuids |-> {}, last_stats_hash |-> None]
ValidStateFile(uuids, hash) ==
    [kind |-> "valid", processed_uuids |-> uuids, last_stats_hash |-> hash]

\* _load_state: the engine's fields after construction over the file
LoadState(file) ==
    IF file.kind = "valid"
    THEN [processed_uuids |-> file.processed_uuids, last_stats_hash |-> file.last_stats_hash]
    ELSE [processed_uuids |-> {}, last_stats_hash |-> None]

\* the truncation of line 70 left out
UuidsToSaveAll(uuids) == {uuids}

\* line 70: list(self._processed_uuids)[-10000:].  _processed_uuids is a set
\* of strings: the order of list(...) is the set's hash order, so the slice
\* keeps some SaveCap of the identifiers, any of them.
UuidsToSave(uuids) ==
    IF Cardinality(uuids) <= SaveCap
    THEN {uuids}
    ELSE {kept \in SUBSET uuids : Cardinality(kept) = SaveCap}

\* how the write of lines 76-77 ends: "ok"; "open_fails" (open raises, the file
\* is untouched); "write_fails" (open has truncated the file, json.dump raises)
SaveOutcomes == {"ok", "open_fails", "write_fails"}

\* _save_state: the state file afterwards
SaveState(outcome, file, kept, hash) ==
    IF outcome = "ok" THEN ValidStateFile(kept, hash)
    ELSE IF outcome = "write_fails" THEN CorruptStateFile
    ELSE file


(***************************************************************************)
(* Model identifiers, tariffs and costs.  A model identifier is the        *)
(* sequence of its "-"-separated parts: <<"claude", "sonnet", "4">> is     *)
(* "claude-sonnet-4".  No part of Parts is a prefix or a suffix of         *)
(* another, so a name is a substring of an identifier exactly when its     *)
(* parts are consecutive parts of the identifier.                          *)
(***************************************************************************)
\* the longest model identifier, in parts
MaxIdLen == 4

Parts == {"claude", "Claude", "opus", "sonnet", "haiku", "3", "4", "5", "gpt", "20251101"}
\* the parts that \d{8} matches
DateParts == {"20251101"}
IdLens == 0..MaxIdLen
ModelIds(n) == [1..n -> Parts]

\* str.lower()
LowerPart(part) == IF part = "Claude" THEN "claude" ELSE part
LowerCase(model) == [i \in 1..Len(model) |-> LowerPart(model[i])]

\* a tariff: thousandths of a dollar per million tokens, by token class
Tariff(input, output, cache_read, cache_write) ==
    [input |-> input, output |-> output, cache_read |-> cache_read, cache_write |-> cache_write]
OpusTariff == Tariff(15000, 75000, 1875, 18750)
SonnetTariff == Tariff(3000, 15000, 300, 3750)
HaikuTariff == Tariff(800, 4000, 80, 1000)

\* the dict MODELS_PRICING, in its insertion order
MODELS_PRICING ==
    << [name |-> <<"claude", "opus", "4", "5">>, pricing |-> OpusTariff],
       [name |-> <<"claude", "sonnet", "4">>, pricing |-> SonnetTariff],
       [name |-> <<"claude", "3", "5", "sonnet">>, pricing |-> SonnetTariff],
       [name |-> <<"claude", "3", "opus">>, pricing |-> OpusTariff],
       [name |-> <<"claude", "3", "5", "haiku">>, pricing |-> HaikuTariff] >>

\* the default of line 95 set to the cheapest tariff of the table
DefaultPricingCheapest == HaikuTariff

\* line 95: the tariff returned for a model no entry matches
DefaultPricing == Tariff(15000, 75000, 1875, 18750)

\* "known_model in model_lower"
Contains(name, model) ==
    \E i \in 0..(Len(model) - Len(name)) : SubSeq(model, i + 1, i + Len(name)) = name

\* "model_lower.startswith(known_model.split("-")[0])"
StartsWithFirstPart(model, name) == Len(model) >= 1 /\ model[1] = name[1]

\* the test of line 90
KnownModelMatches(name, model_lower) ==
    Contains(name, model_lower) \/ StartsWithFirstPart(model_lower, name)

\* the loop of lines 89-91 from entry i on, then the default of line 95
RECURSIVE PricingFrom(_, _)
PricingFrom(model_lower, i) ==
    IF i > Len(MODELS_PRICING) THEN DefaultPricing
    ELSE IF KnownModelMatches(MODELS_PRICING[i].name, model_lower)
    THEN MODELS_PRICING[i].pricing
    ELSE PricingFrom(model_lower, i + 1)

GetModelPricing(model) == PricingFrom(LowerCase(model), 1)

\* round(n / d) for n >= 0, d > 0: to the nearest integer, a tie to the even one
RoundDiv(n, d) ==
    LET q == n \div d
        r == n % d
    IN  IF 2 * r > d \/ (2 * r = d /\ q % 2 = 1) THEN q + 1 ELSE q

\* (tokens / 1_000_000) * price, in thousandths of a millionth of a dollar
ClassCost(tokens, price) == tokens * price

\* lines 108-113: the four class costs summed and rounded, in millionths
\* of a dollar (round(..., 6)).  The sum is taken in two parts, the whole
\* thousands of tokens and the rest, to stay within 32-bit integers.
CostAt(pricing, input_tokens, output_tokens, cache_read_tokens, cache_write_tokens) ==
    LET whole == ClassCost(input_tokens \div 1000, pricing.input)
                 + ClassCost(output_tokens \div 1000, pricing.output)
                 + ClassCost(cache_read_tokens \div 1000, pricing.cache_read)
                 + ClassCost(cache_write_tokens \div 1000, pricing.cache_write)
        rest == ClassCost(input_tokens % 1000, pricing.input)
                + ClassCost(output_tokens % 1000, pricing.output)
                + ClassCost(cache_read_tokens % 1000, pricing.cache_read)
                + ClassCost(cache_write_tokens % 1000, pricing.cache_write)
    IN  whole + RoundDiv(rest, 1000)

\* calculate_cost
CalculateCost(model, input_tokens, output_tokens, cache_read_tokens, cache_write_tokens) ==
    CostAt(GetModelPricing(model), input_tokens, output_tokens,
           cache_read_tokens, cache_write_tokens)

\* _normalize_model_name: re.sub(r'-\d{8}$', '', model).lower().  The pattern
\* needs the "-" before the digits: a last part that is not the first.
NormalizeModelName(model) ==
    LowerCase(IF Len(model) > 1 /\ model[Len(model)] \in DateParts
              THEN SubSeq(model, 1, Len(model) - 1)
              ELSE model)

\* the token counts and the models of the calls of calculate_cost
TokenCounts == {0, 1, 500000, 1000000}
CacheTokenCounts == {0, 1}
IsCostModel(model) ==
    Len(model) <= 2 \/ \E i \in 1..Len(MODELS_PRICING) : MODELS_PRICING[i].name = model

\* a call before it is made, and the calls to make
CallOf(fn, model, tokens) ==
    [fn |-> fn, model |-> model, tokens |-> tokens, done |-> FALSE, result |-> <<>>]
NoCall == CallOf("none", <<>>, <<>>)
CallsOn(model) ==
    {CallOf("get_model_pricing", model, <<>>), CallOf("_normalize_model_name", model, <<>>)}
    \cup IF IsCostModel(model)
         THEN {CallOf("calculate_cost", model, tokens) :
                   tokens \in TokenCounts \X TokenCounts \X CacheTokenCounts \X CacheTokenCounts}
         ELSE {}


(***************************************************************************)
(* State.                                                                  *)
(***************************************************************************)
VARIABLES
    dirs,             \* "none": ~/.claude is missing; "claude": it exists; "projects": so does projects/
    logs,             \* file -> the lines of that session log
    unreadable,       \* the session logs that open() refuses
    snap,             \* stats-cache.json
    stateFile,        \* token_dash_state.json
    processed_uuids,  \* self._processed_uuids
    last_stats_hash,  \* self._last_stats_hash
    sink,             \* the points written to InfluxDB
    writes,           \* history: changes the environment made to the files
    restarts,         \* history: engine constructions after the first
    markOrder,        \* history: the uuids added to _processed_uuids, latest addition last
    emitted,          \* history: uuid -> number of batches returned by collect() that hold its event
    prevSnap,         \* history: stats-cache.json as the previous collect() of this engine found it
    loadedFrom,       \* history: the kind of state file this engine was constructed over, "used" once it has collected
    obs,              \* history: the last step, and what the last run() did
    call,             \* a call of one of the engine's pure methods: its arguments and its result
    other,            \* a second engine instance (a second process) over the same files
    scannedPartial,   \* history: the uuids of the records a collect() met as partial lines
    orch              \* the orchestrator: self.running, where its run loop is, the collectors' runs

vars == <<dirs, logs, unreadable, snap, stateFile, processed_uuids, last_stats_hash, sink,
          writes, restarts, markOrder, emitted, prevSnap, loadedFrom, obs, call, other,
          scannedPartial, orch>>

\* the variables of the engine and of its files
engineVars == <<dirs, logs, unreadable, snap, stateFile, processed_uuids, last_stats_hash,
                sink, writes, restarts, markOrder, emitted, prevSnap, loadedFrom, obs, other,
                scannedPartial, orch>>

\* the second instance: not started, or its _processed_uuids and
\* _last_stats_hash; emitted is history, the uuids of the events its
\* collect() calls have returned
NotStarted == [started |-> FALSE, processed_uuids |-> {}, last_stats_hash |-> None, emitted |-> {}]

NoSnapSeen == [bytes |-> 0, json |-> "never", modelUsage |-> <<>>, dailyActivity |-> <<>>]

(***************************************************************************)
(* obs, after a run(): collected (collect() was called), batch (what it    *)
(* returned), repeat (the step before was a run() of the same engine: no   *)
(* file changed in between), sameSnap (stats-cache.json was as the         *)
(* previous collect() of this engine found it), hashBefore                 *)
(* (_last_stats_hash when collect() was called), saved (how _save_state    *)
(* ended), written (how write_points ended), loadedFrom (loadedFrom when   *)
(* collect() was called), prevJson (what the previous collect() of this    *)
(* engine made of stats-cache.json).  After a crash: before (the state     *)
(* file as the crash found it).  After a collect() entered while           *)
(* unconfigured op is "collect".  After any other step only op is meant:   *)
(* "init", "env" or "restart".                                             *)
(***************************************************************************)
ObsOf(op) ==
    [op |-> op, collected |-> FALSE, batch |-> <<>>, repeat |-> FALSE, sameSnap |-> FALSE,
     hashBefore |-> None, saved |-> "none", written |-> "noop", loadedFrom |-> "none",
     before |-> NoStateFile, prevJson |-> "none"]

\* the state after the first construction, on a host where Claude Code never ran
(***************************************************************************)
(* The orchestrator (main.py).  orch is a record: running (self.running),  *)
(* phase (where CollectorOrchestrator.run is: "loop" at the test of the    *)
(* while, "cycle" in run_collection_cycle, "sleep" in the wait of lines    *)
(* 112-115, "pause" in the sleep of line 119, "cleanup" in the loop of     *)
(* lines 123-127, "stopped" after it), cycles (the cycles started), runs   *)
(* (for each collector, what its run() of the cycle met and how it ended,  *)
(* or Pending), closed (for each close() called so far, in order, the      *)
(* collector and how it ended), signalled (history: the signal whose       *)
(* handler ran first, or "none"), faultedIn (history: the first cycle in   *)
(* which a collect() or a write_points() raised, or 0).                    *)
(***************************************************************************)
MaxCycles == 2

\* main.py lines 42-48, in the order of self.collectors
CollectorList == <<"openai", "anthropic", "openclaw", "claude_code", "codex">>
Collectors == Range(CollectorList)

\* what a run() of a collector meets: nothing, is_configured() false,
\* collect() raising, write_points() raising (base.py lines 107-109)
Faults == {"none", "unconfigured", "collect_raises", "write_raises"}

Pending == [fault |-> "none", result |-> "pending"]

\* run() without the try of base.py lines 117-123: the exception leaves run()
CollectorRunReraises(fault) ==
    IF fault \in {"collect_raises", "write_raises"} THEN "raised" ELSE "returned"

\* base.py lines 111-123: how run() ends.  Unconfigured it returns at line
\* 115; an exception of collect() or of write_points() is logged at line 123.
CollectorRun(fault) == "returned"

\* main.py line 68
ReturnExceptions == TRUE

\* main.py line 68: how the await of asyncio.gather ends once every run() has
\* ended
Gather(runs) ==
    IF ~ReturnExceptions /\ \E c \in Collectors : runs[c].result = "raised"
    THEN "raised"
    ELSE "returned"

\* main.py lines 124-127 with "except Exception: break" in place of the bare
\* except: the first close() that raises ends the loop
CleanupGoesOnOnlyIfOk(outcome) == outcome = "ok"

\* main.py lines 124-127: whatever close() did, the loop goes on to the next
\* collector
CleanupGoesOn(outcome) == outcome \in {"ok", "raises"}

\* main.py line 49, before run() is called
OrchInit ==
    [running |-> TRUE, phase |-> "loop", cycles |-> 0,
     runs |-> [c \in Collectors |-> Pending], closed |-> <<>>,
     signalled |-> "none", faultedIn |-> 0]

InitEngine ==
    /\ orch = OrchInit
    /\ dirs = "none"
    /\ logs = [f \in Files |-> <<>>]
    /\ unreadable = {}
    /\ snap = Absent
    /\ stateFile = NoStateFile
    /\ processed_uuids = {}
    /\ last_stats_hash = None
    /\ sink = <<>>
    /\ writes = 0
    /\ restarts = 0
    /\ markOrder = <<>>
    /\ emitted = [u \in Ids |-> 0]
    /\ prevSnap = NoSnapSeen
    /\ loadedFrom = "absent"
    /\ obs = ObsOf("init")
    /\ other = NotStarted
    /\ scannedPartial = {}

Init == InitEngine /\ call = NoCall

(***************************************************************************)
(* The environment.                                                        *)
(***************************************************************************)
\* Claude Code creates ~/.claude, then ~/.claude/projects
MkDir ==
    /\ dirs # "projects"
    /\ dirs' = IF dirs = "none" THEN "claude" ELSE "projects"
    /\ obs' = ObsOf("env")
    /\ UNCHANGED <<logs, unreadable, snap, stateFile, processed_uuids, last_stats_hash, sink,
                   writes, restarts, markOrder, emitted, prevSnap, loadedFrom, call, other, scannedPartial, orch>>

\* the write of the last line of the session log f is not finished
LastLinePartial(f) ==
    /\ logs[f] # <<>>
    /\ logs[f][Len(logs[f])] = PartialLine(logs[f][Len(logs[f])].uuid)

\* Claude Code appends a line to a session log; a record's uuid is fresh
AppendLine ==
    /\ dirs = "projects"
    /\ writes < MaxWrites
    /\ writes' = writes + 1
    /\ \E f \in Files, line \in LineShapes(writes + 1) :
           /\ ~LastLinePartial(f)
           /\ logs' = [logs EXCEPT ![f] = Append(@, line)]
    /\ obs' = ObsOf("env")
    /\ UNCHANGED <<dirs, unreadable, snap, stateFile, processed_uuids, last_stats_hash, sink,
                   restarts, markOrder, emitted, prevSnap, loadedFrom, call, other, scannedPartial, orch>>

\* a session log loses or regains its read permission
SetReadable ==
    /\ dirs = "projects"
    /\ writes < MaxWrites
    /\ writes' = writes + 1
    /\ \E f \in Files :
           unreadable' = IF f \in unreadable THEN unreadable \ {f} ELSE unreadable \cup {f}
    /\ obs' = ObsOf("env")
    /\ UNCHANGED <<dirs, logs, snap, stateFile, processed_uuids, last_stats_hash, sink,
                   restarts, markOrder, emitted, prevSnap, loadedFrom, call, other, scannedPartial, orch>>

\* Claude Code rewrites stats-cache.json, or the file is removed or made unreadable
WriteSnapshot ==
    /\ dirs # "none"
    /\ writes < MaxWrites
    /\ writes' = writes + 1
    /\ \E file \in SnapContents \cup {Absent, Unreadable} :
           /\ file # snap
           /\ snap' = file
    /\ obs' = ObsOf("env")
    /\ UNCHANGED <<dirs, logs, unreadable, stateFile, processed_uuids, last_stats_hash, sink,
                   restarts, markOrder, emitted, prevSnap, loadedFrom, call, other, scannedPartial, orch>>

\* Claude Code rewrites stats-cache.json with several dailyActivity entries
WriteDailies ==
    /\ dirs # "none"
    /\ writes < MaxWrites
    /\ writes' = writes + 1
    /\ \E file \in DailyContents :
           /\ file # snap
           /\ snap' = file
    /\ obs' = ObsOf("env")
    /\ UNCHANGED <<dirs, logs, unreadable, stateFile, processed_uuids, last_stats_hash, sink,
                   restarts, markOrder, emitted, prevSnap, loadedFrom, call, other, scannedPartial, orch>>

\* stats-cache.json, removed or left half written, is back with the content
\* whose fingerprint the engine holds
RestoreSnapshot ==
    /\ dirs # "none"
    /\ snap.json \in {"absent", "invalid"}
    /\ \E file \in SnapContents \cup DailyContents :
           /\ file.json = "object"
           /\ Md5(file.bytes) = last_stats_hash
           /\ snap' = file
    /\ obs' = ObsOf("env")
    /\ UNCHANGED <<dirs, logs, unreadable, stateFile, processed_uuids, last_stats_hash, sink,
                   writes, restarts, markOrder, emitted, prevSnap, loadedFrom, call, other,
                   scannedPartial, orch>>

\* the records of the session logs written as second records of their uuid
Duplicates ==
    {p \in Files \X (1..MaxWrites + MaxDuplicates) :
        /\ p[2] <= Len(logs[p[1]])
        /\ logs[p[1]][p[2]] = DuplicateLine(logs[p[1]][p[2]].uuid)}

\* Claude Code appends, to any session log, a record with the uuid of a
\* record already written
AppendDuplicate ==
    /\ dirs = "projects"
    /\ Cardinality(Duplicates) < MaxDuplicates
    /\ \E f \in Files, g \in Files :
           \E i \in 1..Len(logs[g]) :
               /\ logs[g][i].uuid # NoUuid
               /\ ~LastLinePartial(f)
               /\ logs' = [logs EXCEPT ![f] = Append(@, DuplicateLine(logs[g][i].uuid))]
    /\ obs' = ObsOf("env")
    /\ UNCHANGED <<dirs, unreadable, snap, stateFile, processed_uuids, last_stats_hash, sink,
                   writes, restarts, markOrder, emitted, prevSnap, loadedFrom, call, other,
                   scannedPartial, orch>>

\* ~/.claude is removed, and with it the session logs, stats-cache.json and
\* the state file (line 48: the state file lives in ~/.claude)
RemoveDir ==
    /\ dirs # "none"
    /\ dirs' = "none"
    /\ logs' = [f \in Files |-> <<>>]
    /\ unreadable' = {}
    /\ snap' = Absent
    /\ stateFile' = NoStateFile
    /\ obs' = ObsOf("env")
    /\ UNCHANGED <<processed_uuids, last_stats_hash, sink, writes, restarts, markOrder, emitted,
                   prevSnap, loadedFrom, call, other, scannedPartial, orch>>

\* Claude Code appends a record whose timestamp is not an ISO-8601 string
AppendTimestamped ==
    /\ dirs = "projects"
    /\ writes < MaxWrites
    /\ writes' = writes + 1
    /\ \E f \in Files, ts \in TimestampKinds :
           /\ ~LastLinePartial(f)
           /\ logs' = [logs EXCEPT ![f] = Append(@, TimestampedLine(writes + 1, ts))]
    /\ obs' = ObsOf("env")
    /\ UNCHANGED <<dirs, unreadable, snap, stateFile, processed_uuids, last_stats_hash, sink,
                   restarts, markOrder, emitted, prevSnap, loadedFrom, call, other, scannedPartial, orch>>

\* Claude Code has written the first bytes of a record at the end of a
\* session log, the rest and the newline are still to come
AppendPartial ==
    /\ dirs = "projects"
    /\ writes < MaxWrites
    /\ writes' = writes + 1
    /\ \E f \in Files :
           /\ ~LastLinePartial(f)
           /\ logs' = [logs EXCEPT ![f] = Append(@, PartialLine(writes + 1))]
    /\ obs' = ObsOf("env")
    /\ UNCHANGED <<dirs, unreadable, snap, stateFile, processed_uuids, last_stats_hash, sink,
                   restarts, markOrder, emitted, prevSnap, loadedFrom, call, other, scannedPartial, orch>>

\* Claude Code finishes the write of a partial line: the line is now the record
CompleteLine ==
    /\ \E f \in Files :
           /\ LastLinePartial(f)
           /\ logs' = [logs EXCEPT ![f][Len(logs[f])] = GoodLine(logs[f][Len(logs[f])].uuid)]
    /\ obs' = ObsOf("env")
    /\ UNCHANGED <<dirs, unreadable, snap, stateFile, processed_uuids, last_stats_hash, sink,
                   writes, restarts, markOrder, emitted, prevSnap, loadedFrom, call, other,
                   scannedPartial, orch>>

(***************************************************************************)
(* The engine.                                                             *)
(***************************************************************************)
\* BaseCollector.__init__: self._write_api = None, and nothing in the
\* repository reads the influx_client property that would set it
WriteApi == "None"

\* write_points: "noop" (no points), "raised" (the write raised; run() logs
\* it) or "written"
WritePoints(points) ==
    IF points = <<>> THEN "noop"
    ELSE IF WriteApi = "None" THEN "raised"     \* None.write: AttributeError
    ELSE "written"

\* is_configured: ~/.claude exists
IsConfigured == dirs # "none"

\* the two scans of collect() (lines 123-129) on the current state: the batch,
\* the new _last_stats_hash and the uuids added to _processed_uuids, in order
\* by an engine whose fields are hash and seen
\* line 129 before line 123: the session events first
ScanOfSessionsFirst(hash, seen) ==
    LET stats == CollectFromStatsCache(snap, hash)
        sessions == IF dirs = "projects"
                    THEN CollectFromSessions(1, logs, unreadable, <<>>, <<>>, seen)
                    ELSE [points |-> <<>>, marked |-> <<>>]
    IN  [batch |-> sessions.points \o stats.points,
         hash |-> stats.hash,
         marked |-> sessions.marked]

\* the try of lines 144-225 left out: a snapshot that cannot be read or is
\* not JSON raises out of collect() before line 129
ScanOfSnapshotFailureAborts(hash, seen) ==
    IF snap.json \in {"unreadable", "invalid", "nonobject"}
    THEN [batch |-> <<>>, hash |-> hash, marked |-> <<>>]
    ELSE LET stats == CollectFromStatsCache(snap, hash)
             sessions == IF dirs = "projects"
                         THEN CollectFromSessions(1, logs, unreadable, <<>>, <<>>, seen)
                         ELSE [points |-> <<>>, marked |-> <<>>]
         IN  [batch |-> stats.points \o sessions.points,
              hash |-> stats.hash,
              marked |-> sessions.marked]

ScanOf(hash, seen) ==
    LET stats == CollectFromStatsCache(snap, hash)
        sessions == IF dirs = "projects"
                    THEN CollectFromSessions(1, logs, unreadable, <<>>, <<>>, seen)
                    ELSE [points |-> <<>>, marked |-> <<>>]   \* projects/ not found
    IN  [batch |-> stats.points \o sessions.points,
         hash |-> stats.hash,
         marked |-> sessions.marked]

\* the scans of this engine
Scan == ScanOf(last_stats_hash, processed_uuids)

\* the except of lines 78-79 left out: a failed write of the state file
\* raises out of collect() and the batch is lost
CollectReturnSaveRaises(outcome, points) == IF outcome = "ok" THEN points ELSE <<>>

\* lines 131-134: "self._save_state(); return points".  _save_state logs an
\* exception of the write and returns (lines 78-79).
CollectReturn(outcome, points) == points

\* the uuids of the partial lines of the files a scan opens
PartialUuids ==
    IF dirs # "projects" THEN {}
    ELSE UNION {{logs[f][i].uuid : i \in {j \in 1..Len(logs[f]) :
                                            logs[f][j].json = "invalid" /\ logs[f][j].uuid # NoUuid}} :
                f \in Files \ unreadable}

\* markOrder after the uuids of marked were added
Remark(order, marked) == SelectSeq(order, LAMBDA u : u \notin Range(marked)) \o marked

\* BaseCollector.run: is_configured, collect() (scan the snapshot, scan the
\* session logs, _save_state), write_points
Run ==
    IF ~IsConfigured
    THEN /\ obs' = [ObsOf("run") EXCEPT !.repeat = (obs.op = "run")]
         /\ UNCHANGED <<dirs, logs, unreadable, snap, stateFile, processed_uuids,
                        last_stats_hash, sink, writes, restarts, markOrder, emitted, prevSnap, loadedFrom, call, other, scannedPartial, orch>>
    ELSE LET s == Scan
             seen == processed_uuids \cup Range(s.marked)
         IN  /\ processed_uuids' = seen
             /\ last_stats_hash' = s.hash
             /\ \E outcome \in SaveOutcomes, kept \in UuidsToSave(seen) :
                    LET batch == CollectReturn(outcome, s.batch)
                    IN  /\ stateFile' = SaveState(outcome, stateFile, kept, s.hash)
                        /\ obs' = [op |-> "run", collected |-> TRUE, batch |-> batch,
                                   repeat |-> (obs.op = "run"),
                                   sameSnap |-> (prevSnap = snap),
                                   hashBefore |-> last_stats_hash,
                                   saved |-> outcome,
                                   written |-> WritePoints(batch),
                                   loadedFrom |-> loadedFrom,
                                   before |-> NoStateFile,
                                   prevJson |-> prevSnap.json]
                        /\ sink' = IF WritePoints(batch) = "written" THEN sink \o batch ELSE sink
                        /\ emitted' = [u \in Ids |->
                                          IF u \in BatchUuids(batch) THEN emitted[u] + 1
                                          ELSE emitted[u]]
             /\ markOrder' = Remark(markOrder, s.marked)
             /\ prevSnap' = snap
             /\ loadedFrom' = "used"
             /\ scannedPartial' = scannedPartial \cup PartialUuids
             /\ UNCHANGED <<dirs, logs, unreadable, snap, writes, restarts, call, other, orch>>

\* the test of lines 119-121 left out: collect() goes on to the scans and to
\* _save_state whether or not ~/.claude exists
CollectEarlyReturnNever(configured) == FALSE

\* lines 119-121: collect() returns [] at once when is_configured() is false
CollectEarlyReturn(configured) == ~configured

\* collect() entered while ~/.claude does not exist: it was called by
\* something other than run(), or the directory went away after the test of
\* base.py line 113.  Past the test of lines 119-121 the scans would find
\* nothing (lines 140-141, 233-235) and the open of line 76 would fail, the
\* directory of the state file being ~/.claude itself.
CollectUnconfigured ==
    /\ ~IsConfigured
    /\ IF CollectEarlyReturn(IsConfigured)
       THEN /\ obs' = [ObsOf("collect") EXCEPT !.hashBefore = last_stats_hash]
            /\ UNCHANGED <<processed_uuids, last_stats_hash, stateFile, markOrder>>
       ELSE LET s == Scan
            IN  /\ processed_uuids' = processed_uuids \cup Range(s.marked)
                /\ last_stats_hash' = s.hash
                /\ stateFile' = SaveState("open_fails", stateFile, processed_uuids', s.hash)
                /\ markOrder' = Remark(markOrder, s.marked)
                /\ obs' = [ObsOf("collect") EXCEPT !.hashBefore = last_stats_hash,
                                                   !.collected = TRUE,
                                                   !.batch = s.batch,
                                                   !.saved = "open_fails"]
    /\ UNCHANGED <<dirs, logs, unreadable, snap, sink, writes, restarts, emitted, prevSnap,
                   loadedFrom, call, other, scannedPartial, orch>>

\* the process ends between two cycles and is started again:
\* ClaudeCodeCollector.__init__ with _load_state
Restart ==
    /\ restarts < MaxRestarts
    /\ restarts' = restarts + 1
    /\ processed_uuids' = LoadState(stateFile).processed_uuids
    /\ last_stats_hash' = LoadState(stateFile).last_stats_hash
    /\ prevSnap' = NoSnapSeen
    /\ loadedFrom' = stateFile.kind
    /\ obs' = ObsOf("restart")
    /\ UNCHANGED <<dirs, logs, unreadable, snap, stateFile, sink, writes, markOrder, emitted, call, other, scannedPartial, orch>>

\* the process dies inside _save_state, between open(state_file, "w"), which
\* truncates the file, and the end of json.dump; then it is started again.
\* What the dying cycle held in memory is lost, its batch was never returned.
CrashInSave ==
    /\ IsConfigured
    /\ restarts < MaxRestarts
    /\ restarts' = restarts + 1
    /\ stateFile' = CorruptStateFile
    /\ processed_uuids' = LoadState(CorruptStateFile).processed_uuids
    /\ last_stats_hash' = LoadState(CorruptStateFile).last_stats_hash
    /\ prevSnap' = NoSnapSeen
    /\ loadedFrom' = "corrupt"
    /\ obs' = [ObsOf("crash") EXCEPT !.before = stateFile]
    /\ UNCHANGED <<dirs, logs, unreadable, snap, sink, writes, markOrder, emitted, call, other, scannedPartial, orch>>

Next ==
    \/ MkDir
    \/ AppendLine
    \/ SetReadable
    \/ WriteSnapshot
    \/ Run
    \/ Restart
    \/ CrashInSave

Spec == Init /\ [][Next]_vars

\* the session logs alone: stats-cache.json is never written
NextSessions ==
    \/ MkDir
    \/ AppendLine
    \/ SetReadable
    \/ Run
    \/ Restart
    \/ CrashInSave

SpecSessions == Init /\ [][NextSessions]_vars

\* the scans of the session logs by a process that is never killed in a save
NextScans ==
    \/ MkDir
    \/ AppendLine
    \/ SetReadable
    \/ Run
    \/ Restart

SpecScans == Init /\ [][NextScans]_vars

\* the snapshot alone: the session logs stay empty
NextSnapshot ==
    \/ MkDir
    \/ WriteSnapshot
    \/ Run
    \/ Restart
    \/ CrashInSave

SpecSnapshot == Init /\ [][NextSnapshot]_vars

(***************************************************************************)
(* A second engine instance over the same ~/.claude and the same state     *)
(* file: a second process running the orchestrator.  Nothing in            *)
(* ClaudeCodeCollector or in main.py takes a lock on the state file.       *)
(***************************************************************************)
\* ClaudeCodeCollector.__init__ of the second process: _load_state
StartOther ==
    /\ ~other.started
    /\ other' = [started |-> TRUE,
                 processed_uuids |-> LoadState(stateFile).processed_uuids,
                 last_stats_hash |-> LoadState(stateFile).last_stats_hash,
                 emitted |-> {}]
    /\ obs' = ObsOf("start_other")
    /\ UNCHANGED <<dirs, logs, unreadable, snap, stateFile, processed_uuids, last_stats_hash,
                   sink, writes, restarts, markOrder, emitted, prevSnap, loadedFrom, call,
                   scannedPartial, orch>>

\* BaseCollector.run of the second process
RunOther ==
    /\ other.started
    /\ IsConfigured
    /\ LET s == ScanOf(other.last_stats_hash, other.processed_uuids)
           seen == other.processed_uuids \cup Range(s.marked)
       IN  \E outcome \in SaveOutcomes, kept \in UuidsToSave(seen) :
               LET batch == CollectReturn(outcome, s.batch)
               IN  /\ other' = [started |-> TRUE, processed_uuids |-> seen,
                                last_stats_hash |-> s.hash,
                                emitted |-> other.emitted \cup BatchUuids(batch)]
                   /\ stateFile' = SaveState(outcome, stateFile, kept, s.hash)
                   /\ sink' = IF WritePoints(batch) = "written" THEN sink \o batch ELSE sink
                   /\ obs' = [ObsOf("run_other") EXCEPT !.collected = TRUE, !.batch = batch,
                                                        !.saved = outcome,
                                                        !.written = WritePoints(batch)]
    /\ UNCHANGED <<dirs, logs, unreadable, snap, processed_uuids, last_stats_hash, writes,
                   restarts, markOrder, emitted, prevSnap, loadedFrom, call, scannedPartial, orch>>

\* two processes over the session logs
NextTwoEngines ==
    \/ MkDir
    \/ AppendLine
    \/ Run
    \/ StartOther
    \/ RunOther

SpecTwoEngines == Init /\ [][NextTwoEngines]_vars

\* one engine instance from its construction on, over session logs whose
\* records carry timestamps of every kind
NextLifetime ==
    \/ MkDir
    \/ AppendLine
    \/ AppendTimestamped
    \/ Run

SpecLifetime == Init /\ [][NextLifetime]_vars

\* one engine instance from its construction on, over the snapshot and the
\* session logs
NextCycles ==
    \/ MkDir
    \/ AppendLine
    \/ WriteSnapshot
    \/ Run

SpecCycles == Init /\ [][NextCycles]_vars

\* one engine instance over the snapshot alone, which comes and goes
NextAggregates ==
    \/ MkDir
    \/ WriteSnapshot
    \/ WriteDailies
    \/ RestoreSnapshot
    \/ Run

SpecAggregates == Init /\ [][NextAggregates]_vars

(***************************************************************************)
(* CollectorOrchestrator.run (main.py lines 82-129) from the first test of *)
(* its while loop on, the handlers of line 84 installed.  The engine is    *)
(* one of the five collectors; what its run() does to its own state is     *)
(* the action Run above, and here only how each run() and close() ends     *)
(* matters.                                                                *)
(***************************************************************************)
\* what the orchestrator's steps leave alone
collectorVars == <<dirs, logs, unreadable, snap, stateFile, processed_uuids, last_stats_hash,
                   sink, writes, restarts, markOrder, emitted, prevSnap, loadedFrom, obs, call,
                   other, scannedPartial>>

\* main.py lines 54-59: SIGTERM or SIGINT arrives, handle_shutdown runs
Signal ==
    /\ orch.phase # "stopped"
    /\ orch.running
    /\ \E sig \in {"SIGTERM", "SIGINT"} :
           orch' = [orch EXCEPT !.running = FALSE, !.signalled = sig]
    /\ UNCHANGED collectorVars

\* main.py lines 101-103: the test of the while; a cycle starts, or the loop
\* is left for the cleanup of line 122
LoopTest ==
    /\ orch.phase = "loop"
    /\ IF orch.running
       THEN /\ orch.cycles < MaxCycles
            /\ orch' = [orch EXCEPT !.phase = "cycle", !.cycles = @ + 1,
                                    !.runs = [c \in Collectors |-> Pending]]
       ELSE orch' = [orch EXCEPT !.phase = "cleanup",
                                 !.runs = [c \in Collectors |-> Pending]]
    /\ UNCHANGED collectorVars

\* main.py lines 67-68: the run() of one collector, from its start to its end
CollectorStep(c) ==
    /\ orch.phase = "cycle"
    /\ orch.runs[c] = Pending
    /\ \E fault \in Faults :
           orch' = [orch EXCEPT
                       !.runs[c] = [fault |-> fault, result |-> CollectorRun(fault)],
                       !.faultedIn = IF @ = 0 /\ fault \in {"collect_raises", "write_raises"}
                                     THEN orch.cycles ELSE @]
    /\ UNCHANGED collectorVars

\* main.py lines 68-80 and 103-119: every run() has ended, gather returns and
\* run_collection_cycle with it, the loop waits; had gather raised, line 119
CycleEnd ==
    /\ orch.phase = "cycle"
    /\ \A c \in Collectors : orch.runs[c] # Pending
    /\ orch' = [orch EXCEPT !.phase = IF Gather(orch.runs) = "raised" THEN "pause" ELSE "sleep"]
    /\ UNCHANGED collectorVars

\* main.py lines 112-115 and 119: the wait is over, or self.running is found
\* false
Wake ==
    /\ orch.phase \in {"sleep", "pause"}
    /\ orch' = [orch EXCEPT !.phase = "loop"]
    /\ UNCHANGED collectorVars

\* main.py lines 123-127: close() of the next collector, which may raise
CloseStep ==
    /\ orch.phase = "cleanup"
    /\ Len(orch.closed) < Len(CollectorList)
    /\ \E outcome \in {"ok", "raises"} :
           orch' = [orch EXCEPT
                       !.closed = Append(@, [collector |-> CollectorList[Len(orch.closed) + 1],
                                             outcome |-> outcome]),
                       !.phase = IF CleanupGoesOn(outcome) THEN "cleanup" ELSE "stopped"]
    /\ UNCHANGED collectorVars

\* main.py line 129: the loop of lines 123-127 is over, run() returns
Finish ==
    /\ orch.phase = "cleanup"
    /\ Len(orch.closed) = Len(CollectorList)
    /\ orch' = [orch EXCEPT !.phase = "stopped"]
    /\ UNCHANGED collectorVars

NextOrchestrator ==
    \/ Signal
    \/ LoopTest
    \/ \E c \in Collectors : CollectorStep(c)
    \/ CycleEnd
    \/ Wake
    \/ CloseStep
    \/ Finish

SpecOrchestrator == Init /\ [][NextOrchestrator]_vars

\* the event loop runs what is runnable: the test of the while, the return
\* of gather, the end of a wait, the cleanup.  Nothing makes a collector's
\* run() end: its requests may hang.
SpecOrchestratorFair ==
    /\ SpecOrchestrator
    /\ WF_vars(LoopTest)
    /\ WF_vars(CycleEnd)
    /\ WF_vars(Wake)
    /\ WF_vars(CloseStep)
    /\ WF_vars(Finish)

\* one engine instance whose ~/.claude may be removed and made again
NextUnconfigured ==
    \/ MkDir
    \/ AppendLine
    \/ WriteSnapshot
    \/ RemoveDir
    \/ Run
    \/ CollectUnconfigured

SpecUnconfigured == Init /\ [][NextUnconfigured]_vars

\* one engine instance over session logs in which a uuid may occur twice
NextDuplicates ==
    \/ MkDir
    \/ AppendLine
    \/ AppendDuplicate
    \/ Run

SpecDuplicates == Init /\ [][NextDuplicates]_vars

\* one engine instance over session logs whose last line may be half written
NextPartial ==
    \/ MkDir
    \/ AppendLine
    \/ AppendPartial
    \/ CompleteLine
    \/ Run

SpecPartial == Init /\ [][NextPartial]_vars

(***************************************************************************)
(* The pure methods, each applied to the arguments of the call.            *)
(***************************************************************************)
\* an engine and the arguments of one call
InitCalls ==
    /\ InitEngine
    /\ \E n \in IdLens : \E model \in ModelIds(n) : call \in CallsOn(model)

GetModelPricingCall ==
    /\ call.fn = "get_model_pricing" /\ ~call.done
    /\ call' = [call EXCEPT !.done = TRUE, !.result = GetModelPricing(call.model)]
    /\ UNCHANGED engineVars

CalculateCostCall ==
    /\ call.fn = "calculate_cost" /\ ~call.done
    /\ call' = [call EXCEPT !.done = TRUE,
                            !.result = CalculateCost(call.model, call.tokens[1], call.tokens[2],
                                                     call.tokens[3], call.tokens[4])]
    /\ UNCHANGED engineVars

NormalizeModelNameCall ==
    /\ call.fn = "_normalize_model_name" /\ ~call.done
    /\ call' = [call EXCEPT !.done = TRUE, !.result = NormalizeModelName(call.model)]
    /\ UNCHANGED engineVars

NextCalls ==
    \/ GetModelPricingCall
    \/ CalculateCostCall
    \/ NormalizeModelNameCall

SpecCalls == InitCalls /\ [][NextCalls]_vars


(***************************************************************************)
(* Properties.                                                             *)
(***************************************************************************)
\* an eligible record whose fields are as the session log format gives
\* them: usage a mapping of counters, sessionId a string
WellFormedEligible(line) ==
    Eligible(line) /\ line.usage = "dict" /\ line.sid = "str"

\* the uuids of the well-formed eligible records of the session logs fs
EligibleUuids(fs) ==
    UNION {{logs[f][i].uuid : i \in {j \in 1..Len(logs[f]) : WellFormedEligible(logs[f][j])}} : f \in fs}

\* how many session events of the batch were made from the record u
CountIn(batch, u) ==
    Cardinality({i \in 1..Len(batch) : batch[i].data_type = "message" /\ batch[i].uuid = u})

\* a collect() has just returned after reading every session log
ScannedAll == obs.op = "run" /\ obs.collected /\ dirs = "projects" /\ unreadable = {}

\* C1: the events of the well-formed eligible records, whose identifiers are distinct, are
\* returned exactly once over all collect() calls, restarts included: no
\* identifier is in two returned batches, and once a collect() has read all
\* the logs every eligible record in them has been in one.
C1_ExactlyOncePerIdentifier ==
    /\ \A u \in Ids : emitted[u] <= 1
    /\ ScannedAll => \A u \in EligibleUuids(Files) : emitted[u] = 1

\* C2: a run() that directly follows a run() of the same engine, no file
\* having changed in between, gets an empty batch from collect().
C2_IdempotentRescan ==
    (obs.op = "run" /\ obs.repeat) => obs.batch = <<>>

\* C2's case: the second of two runs over a changed snapshot and a log with a
\* record, both of which the first run has emitted
C2_Witness ==
    /\ obs.op = "run" /\ obs.repeat /\ obs.collected
    /\ snap.json = "object" /\ last_stats_hash = Md5(snap.bytes)
    /\ \E u \in EligibleUuids(Files) : emitted[u] = 1

\* C3: a record whose cycle did not complete its sink write is emitted again
\* by a later cycle: the run() that follows a run() whose write_points raised
\* returns the session events of that batch again.
C3_ReemittedAfterFailedWrite ==
    [][(obs.op = "run" /\ obs.written = "raised" /\ obs'.op = "run") =>
           BatchUuids(obs.batch) \subseteq BatchUuids(obs'.batch)]_vars

\* C4: an identifier is held as seen, in memory or in the state file, only if
\* the event of its record was in a batch that collect() returned.
C4_SeenOnlyIfReturned ==
    \A u \in processed_uuids \cup stateFile.processed_uuids : emitted[u] >= 1

\* the identifiers the engine holds, in the order they were added
InsertOrder == SelectSeq(markOrder, LAMBDA u : u \in processed_uuids)
\* the n of them added last
LastInserted(n) == {InsertOrder[i] : i \in {j \in 1..Len(InsertOrder) : j > Len(InsertOrder) - n}}

\* C5: when more identifiers than the cap are held, a successful save
\* persists exactly the cap most recently inserted ones.
C5_SaveKeepsMostRecent ==
    (obs.op = "run" /\ obs.saved = "ok" /\ Cardinality(processed_uuids) > SaveCap) =>
        stateFile.processed_uuids = LastInserted(SaveCap)

\* C6: the processed_uuids list of the state file never holds more
\* identifiers than the cap.
C6_PersistedBounded ==
    Cardinality(stateFile.processed_uuids) <= SaveCap

\* C6's case: a save by an engine that holds more identifiers than the cap
C6_Witness ==
    /\ obs.op = "run" /\ obs.saved = "ok"
    /\ Cardinality(processed_uuids) > SaveCap
    /\ Cardinality(stateFile.processed_uuids) = SaveCap

\* C7: a collect() that finds stats-cache.json as the previous collect() of
\* the engine found it returns no aggregate event, per-model or daily.
C7_UnchangedSnapshotSilent ==
    (obs.op = "run" /\ obs.sameSnap) => AggregatePart(obs.batch) = <<>>

\* C7's case: the second collect() over a valid snapshot whose fingerprint
\* the first has recorded
C7_Witness ==
    /\ obs.op = "run" /\ obs.sameSnap
    /\ snap.json = "object" /\ Len(snap.modelUsage) > 0
    /\ obs.hashBefore = Md5(snap.bytes)

\* the models of the per-model events of a batch, in order
AggregateModels(batch) ==
    LET per == SelectSeq(batch, LAMBDA e : e.data_type = "aggregate")
    IN  [i \in 1..Len(per) |-> per[i].model]
\* the models of modelUsage, in order
SnapshotModels(file) == [i \in 1..Len(file.modelUsage) |-> file.modelUsage[i].name]

\* collect() recorded the fingerprint of the snapshot and returned one
\* per-model event for every model of modelUsage
ReemitsAllModels ==
    /\ last_stats_hash = Md5(snap.bytes)
    /\ AggregateModels(obs.batch) = SnapshotModels(snap)

\* C8: whenever stats-cache.json can be read and its content differs
\* from the recorded fingerprint, collect() records the new fingerprint and
\* returns one per-model event for every model of modelUsage.
C8_ChangedSnapshotReemitsAll ==
    (/\ obs.op = "run" /\ obs.collected
     /\ snap.json \notin {"absent", "unreadable"}
     /\ obs.hashBefore # Md5(snap.bytes)) => ReemitsAllModels

\* C9: an engine constructed over a missing or invalid state file holds the
\* empty state, and its first collect() returns every well-formed eligible record of the
\* logs it reads exactly once.
C9_FreshStartEmitsAll ==
    /\ (obs.op \in {"restart", "crash"} /\ loadedFrom \in {"absent", "corrupt"}) =>
           processed_uuids = {} /\ last_stats_hash = None
    /\ (obs.op = "run" /\ obs.collected /\ obs.loadedFrom \in {"absent", "corrupt"}) =>
           \A u \in EligibleUuids(IF dirs = "projects" THEN Files \ unreadable ELSE {}) :
               CountIn(obs.batch, u) = 1

\* C10: the engine restarted after a crash inside save() still holds every
\* identifier that the state file held before the crash.
C10_CrashKeepsPersisted ==
    (obs.op = "crash" /\ obs.before.processed_uuids # {}) =>
        obs.before.processed_uuids \subseteq processed_uuids

\* the step is a run() whose collect() scanned the session logs
ScanStep == obs'.op = "run" /\ obs'.collected /\ dirs = "projects"

\* C11: a parse failure on one record is recovered locally: every
\* well-formed eligible record of a readable file that the engine has not
\* seen is returned by the collect() that scans the file, whatever the other
\* lines of the file hold.
C11_ParseFailureLocal ==
    [][ScanStep =>
           \A f \in Files \ unreadable :
               EligibleUuids({f}) \ processed_uuids \subseteq BatchUuids(obs'.batch)]_vars

\* the lines of a file that are JSON
WithoutInvalid(lines) == SelectSeq(lines, LAMBDA line : line.json # "invalid")
\* every line of the file is a well-formed eligible record or is not JSON
OnlyInvalidOrWellFormed(lines) ==
    \A i \in 1..Len(lines) : lines[i].json = "invalid" \/ WellFormedEligible(lines[i])

\* C12: a line that is not JSON is skipped without raising and the other
\* records are still emitted: collect() returns the session events it would
\* return with those lines taken out of the files, and of a readable file that
\* holds nothing but such lines and well-formed eligible records it returns
\* every record the engine has not seen.
C12_InvalidLineSkipped ==
    [][ScanStep =>
           /\ SessionPart(obs'.batch) =
                  CollectFromSessions(1, [f \in Files |-> WithoutInvalid(logs[f])], unreadable,
                                      <<>>, <<>>, processed_uuids).points
           /\ \A f \in Files \ unreadable :
                  OnlyInvalidOrWellFormed(logs[f]) =>
                      EligibleUuids({f}) \ processed_uuids \subseteq BatchUuids(obs'.batch)]_vars

\* C12's case: a collect() has returned the event of a record that follows
\* a line that is not JSON in its file
C12_Witness ==
    /\ obs.op = "run" /\ obs.collected
    /\ \E f \in Files \ unreadable : \E i, j \in 1..Len(logs[f]) :
           /\ i < j
           /\ logs[f][i].json = "invalid"
           /\ WellFormedEligible(logs[f][j])
           /\ logs[f][j].uuid \in BatchUuids(obs.batch)

\* C13: a session log that cannot be opened is skipped and the other files
\* are still scanned: collect() returns, and returns the session events it
\* would return if the files it cannot open were empty.
C13_UnreadableFileSkipped ==
    [][(ScanStep /\ unreadable # {}) =>
           SessionPart(obs'.batch) =
               CollectFromSessions(1, [f \in Files |-> IF f \in unreadable THEN <<>> ELSE logs[f]],
                                   {}, <<>>, <<>>, processed_uuids).points]_vars

\* C13's case: a collect() has returned the event of a record of a file that
\* is scanned after a file that could not be opened
C13_Witness ==
    /\ obs.op = "run" /\ obs.collected
    /\ \E f \in unreadable, g \in Files \ unreadable :
           /\ f < g
           /\ EligibleUuids({g}) \cap BatchUuids(obs.batch) # {}

\* the uuids of the records of the session logs fs that are eligible
\* (type assistant, non-null usage, non-empty identifier)
SpecEligibleUuids(fs) ==
    UNION {{logs[f][i].uuid : i \in {j \in 1..Len(logs[f]) : Eligible(logs[f][j])}} : f \in fs}

\* C14: a session event is emitted for a record if and only if the record
\* has type assistant, a non-null usage, a non-empty identifier, and its
\* identifier is not in seen_identifiers: the session events of a collect()
\* are those of the eligible records of the files it reads that the engine
\* had not seen.
C14_EmittedIffEligibleUnseen ==
    [][ScanStep =>
           BatchUuids(obs'.batch) = SpecEligibleUuids(Files \ unreadable) \ processed_uuids]_vars

\* C15: whenever collect() has returned a non-empty batch, run() has written
\* it to the sink, one point per event.
C15_BatchWritten ==
    (obs.op = "run" /\ obs.batch # <<>>) =>
        /\ obs.written = "written"
        /\ Len(sink) >= Len(obs.batch)
        /\ SubSeq(sink, Len(sink) - Len(obs.batch) + 1, Len(sink)) = obs.batch

\* the first entry of MODELS_PRICING, from entry i on, whose name is a
\* substring of the lower-cased identifier; 0 when there is none
RECURSIVE FirstSubstringEntry(_, _)
FirstSubstringEntry(model_lower, i) ==
    IF i > Len(MODELS_PRICING) THEN 0
    ELSE IF Contains(MODELS_PRICING[i].name, model_lower) THEN i
    ELSE FirstSubstringEntry(model_lower, i + 1)

\* the tariff of the model's own family: that of the first entry whose name
\* is a substring of the lower-cased identifier, the default when there is none
FamilyTariff(model) ==
    LET i == FirstSubstringEntry(LowerCase(model), 1)
    IN  IF i = 0 THEN DefaultPricing ELSE MODELS_PRICING[i].pricing

\* C16: the cost of an event is the sum over the four token classes of
\* tokens/1,000,000 times the tariff of the model's own family; for
\* claude-sonnet-4 with 1,000,000 input and 500,000 output tokens and no cache
\* tokens it is 10.50 dollars.
C16_CostAtOwnFamilyTariff ==
    (call.fn = "calculate_cost" /\ call.done) =>
        /\ call.result = CostAt(FamilyTariff(call.model), call.tokens[1], call.tokens[2],
                                call.tokens[3], call.tokens[4])
        /\ (call.model = <<"claude", "sonnet", "4">> /\ call.tokens = <<1000000, 500000, 0, 0>>)
               => call.result = 10500000

\* C17: get_model_pricing returns the tariff of the first entry of
\* MODELS_PRICING, in table order, whose name is a substring of the lower-cased
\* identifier, and the default tariff only when no name is a substring of it.
C17_FirstSubstringMatchWins ==
    (call.fn = "get_model_pricing" /\ call.done) =>
        LET i == FirstSubstringEntry(LowerCase(call.model), 1)
        IN  call.result = IF i = 0 THEN DefaultPricing ELSE MODELS_PRICING[i].pricing

TokenClasses == {"input", "output", "cache_read", "cache_write"}
\* the highest price of a token class in MODELS_PRICING
MaxPrice(class) ==
    LET prices == {MODELS_PRICING[i].pricing[class] : i \in 1..Len(MODELS_PRICING)}
    IN  CHOOSE p \in prices : \A q \in prices : q <= p

\* C18: get_model_pricing returns a tariff for every identifier, and for an
\* identifier that matches no known family the tariff is the most expensive
\* of the table in every token class.
C18_DefaultIsMostExpensive ==
    (call.fn = "get_model_pricing" /\ call.done) =>
        /\ DOMAIN call.result = TokenClasses
        /\ \A class \in TokenClasses : call.result[class] \in Nat
        /\ FirstSubstringEntry(LowerCase(call.model), 1) = 0 =>
               \A class \in TokenClasses : call.result[class] = MaxPrice(class)

\* C18's case: the tariff returned for an identifier that does not start
\* with "claude" and contains no name of the table
C18_Witness ==
    /\ call.fn = "get_model_pricing" /\ call.done
    /\ Len(call.model) >= 1 /\ LowerCase(call.model)[1] # "claude"
    /\ FirstSubstringEntry(LowerCase(call.model), 1) = 0
    /\ call.result = DefaultPricing

\* C19: normalization strips a trailing -YYYYMMDD suffix and lower-cases the
\* identifier, and normalizing the result again changes nothing.
C19_NormalizeIdempotent ==
    (call.fn = "_normalize_model_name" /\ call.done) =>
        /\ call.result = LowerCase(call.result)
        /\ (Len(call.model) > 1 /\ call.model[Len(call.model)] \in DateParts)
               => call.result = LowerCase(SubSeq(call.model, 1, Len(call.model) - 1))
        /\ NormalizeModelName(call.result) = call.result

\* C20: when the root directory of the session logs (projects/) does not
\* exist, collect() returns an empty list: no aggregate and no session events.
C20_NoLogRootNoEvents ==
    (obs.op = "run" /\ dirs # "projects") => obs.batch = <<>>

\* stats-cache.json is missing, cannot be read, is not JSON, or holds a
\* modelUsage entry that is not a mapping of counters
SnapshotInvalid(file) ==
    \/ file.json \in {"absent", "unreadable", "invalid", "nonobject"}
    \/ \E i \in 1..Len(file.modelUsage) : file.modelUsage[i].shape # "dict"

\* C21: whenever stats-cache.json is absent, unreadable or structurally
\* invalid, collect() returns (it does not raise) and its batch holds no
\* aggregate event.
C21_InvalidSnapshotNoAggregates ==
    (obs.op = "run" /\ IsConfigured /\ SnapshotInvalid(snap)) =>
        /\ obs.collected
        /\ AggregatePart(obs.batch) = <<>>

\* the complete records of the file f that an earlier collect() met as
\* partial lines and whose event no collect() has returned
CompletedUnemitted(f) ==
    {logs[f][i].uuid : i \in {j \in 1..Len(logs[f]) :
                                 /\ logs[f][j] = GoodLine(logs[f][j].uuid)
                                 /\ logs[f][j].uuid \in scannedPartial
                                 /\ emitted[logs[f][j].uuid] = 0}}

\* C22: a record that a scan meets as a partial line is not marked as seen
\* by that scan, and the first later collect() that reads the line complete
\* returns its event.
C22_PartialLineEmittedLater ==
    [][ScanStep =>
           /\ PartialUuids \cap processed_uuids' = {}
           /\ \A f \in Files \ unreadable :
                  CompletedUnemitted(f) \subseteq BatchUuids(obs'.batch)]_vars

\* C23: the set of seen identifiers the engine holds in memory is bounded:
\* after any collect() it holds no more identifiers than the cap.
C23_InMemoryBounded ==
    (obs.op = "run" /\ obs.collected) => Cardinality(processed_uuids) <= SaveCap

\* C24: the collect() calls of two engine instances over one state file are
\* serialized, so that no record's event is returned by both instances.
C24_NoIdentifierEmittedByBoth ==
    \A u \in Ids : ~(emitted[u] > 0 /\ u \in other.emitted)

\* C25: a failed write of the state file does not raise out of collect():
\* the cycle returns the whole batch of its two scans, and the engine keeps
\* in memory the identifiers and the fingerprint the cycle recorded.
C25_SaveFailureNotFatal ==
    [][(obs'.op = "run" /\ obs'.collected /\ obs'.saved # "ok") =>
           /\ obs'.batch = Scan.batch
           /\ processed_uuids' = processed_uuids \cup Range(Scan.marked)
           /\ BatchUuids(obs'.batch) \subseteq processed_uuids'
           /\ last_stats_hash' = Scan.hash]_vars

\* C25's case: a collect() whose write of the state file failed has
\* returned aggregate and session events and has recorded a new fingerprint
C25_Witness ==
    /\ obs.op = "run" /\ obs.collected /\ obs.saved # "ok"
    /\ AggregatePart(obs.batch) # <<>>
    /\ BatchUuids(obs.batch) # {}
    /\ BatchUuids(obs.batch) \subseteq processed_uuids
    /\ last_stats_hash = Md5(snap.bytes) /\ obs.hashBefore # last_stats_hash
    /\ stateFile.kind # "valid"

\* C26: in every batch collect() returns, the aggregate events (per model
\* and per day) all come before the session events.
C26_AggregatesFirst ==
    (obs.op = "run" /\ obs.collected) =>
        \A i, j \in 1..Len(obs.batch) :
            (obs.batch[i].data_type # "message" /\ obs.batch[j].data_type = "message") => i < j

\* C26's case: a batch with aggregate events, a daily event and a session event
C26_Witness ==
    /\ obs.op = "run" /\ obs.collected
    /\ \E i, j, k \in 1..Len(obs.batch) :
           /\ obs.batch[i].data_type = "aggregate"
           /\ obs.batch[j].data_type = "daily_activity"
           /\ obs.batch[k].data_type = "message"

\* the record with the uuid u
RecordOf(u) ==
    CHOOSE line \in UNION {Range(logs[f]) : f \in Files} : line.uuid = u

\* C27: the event of a record whose timestamp is a number of epoch
\* milliseconds, or an ISO-8601 string with a trailing Z, carries the
\* record's instant; only the event of a record whose timestamp is absent
\* or unparseable carries the time of ingestion.
C27_TimestampFromSource ==
    (obs.op = "run" /\ obs.collected) =>
        \A i \in 1..Len(obs.batch) :
            obs.batch[i].data_type = "message" =>
                obs.batch[i].timestamp =
                    IF RecordOf(obs.batch[i].uuid).ts \in {"iso_z", "epoch_ms"}
                    THEN "source" ELSE "now"

\* the session logs with every timestamp replaced by a well-formed one
WithIsoTimestamps(fileLines) ==
    [f \in Files |-> [i \in 1..Len(fileLines[f]) |-> [fileLines[f][i] EXCEPT !.ts = "iso_z"]]]

\* C28: a timestamp that is absent, of the wrong type or unparseable never
\* drops a record: collect() returns the events of the records, and marks
\* the identifiers, that it would with well-formed timestamps in their
\* place; the event of such a record carries the time of ingestion and its
\* identifier is marked; and of a readable file that holds nothing but
\* non-JSON lines and records well-formed in their other fields every
\* record the engine has not seen is returned.
C28_BadTimestampKeepsRecord ==
    [][ScanStep =>
           LET repaired == CollectFromSessions(1, WithIsoTimestamps(logs), unreadable,
                                               <<>>, <<>>, processed_uuids)
           IN  /\ BatchUuids(obs'.batch) = BatchUuids(repaired.points)
               /\ processed_uuids' = processed_uuids \cup Range(repaired.marked)
               /\ \A i \in 1..Len(obs'.batch) :
                      (/\ obs'.batch[i].data_type = "message"
                       /\ RecordOf(obs'.batch[i].uuid).ts \in TimestampKinds) =>
                          /\ obs'.batch[i].timestamp = "now"
                          /\ obs'.batch[i].uuid \in processed_uuids'
               /\ \A f \in Files \ unreadable :
                      OnlyInvalidOrWellFormed(logs[f]) =>
                          EligibleUuids({f}) \ processed_uuids \subseteq BatchUuids(obs'.batch)]_vars

\* C28's case: a collect() has returned, with the time of ingestion, the
\* event of a record without a timestamp that follows a record whose
\* timestamp is a number, and has marked both
C28_Witness ==
    /\ obs.op = "run" /\ obs.collected
    /\ \E i, j \in 1..Len(obs.batch) :
           /\ i < j
           /\ obs.batch[i].data_type = "message" /\ obs.batch[j].data_type = "message"
           /\ RecordOf(obs.batch[i].uuid).ts = "epoch_ms"
           /\ RecordOf(obs.batch[j].uuid).ts = "absent"
           /\ obs.batch[i].timestamp = "now" /\ obs.batch[j].timestamp = "now"
           /\ {obs.batch[i].uuid, obs.batch[j].uuid} \subseteq processed_uuids

\* C29: every event the engine returns, aggregate, daily or session, was
\* constructed without a total_tokens argument and has
\* total_tokens = input_tokens + output_tokens.
C29_TotalIsSum ==
    (obs.op = "run" /\ obs.collected) =>
        \A i \in 1..Len(obs.batch) :
            obs.batch[i].total_tokens = obs.batch[i].input_tokens + obs.batch[i].output_tokens

\* C29's case: a batch with a per-model event, a daily event and a session
\* event, the first and the last with counters that are not zero
C29_Witness ==
    /\ obs.op = "run" /\ obs.collected
    /\ \E i, j, k \in 1..Len(obs.batch) :
           /\ obs.batch[i].data_type = "aggregate" /\ obs.batch[i].total_tokens = 1500000
           /\ obs.batch[j].data_type = "daily_activity" /\ obs.batch[j].total_tokens = 0
           /\ obs.batch[k].data_type = "message" /\ obs.batch[k].input_tokens > 0
           /\ obs.batch[k].output_tokens > 0

\* C30: as long as the engine instance lives its in-memory set only grows,
\* and no identifier is in two of the batches its collect() calls return,
\* however many identifiers there are and however its saves end.
C30_NoRepeatWithinLifetime ==
    /\ [][processed_uuids \subseteq processed_uuids']_vars
    /\ [](\A u \in Ids : /\ emitted[u] <= 1
                         /\ emitted[u] = 1 => u \in processed_uuids)

\* C30's case: the engine holds more identifiers than the cap after a save
\* that failed, and a collect() over the same logs has returned no session event
C30_Witness ==
    /\ obs.op = "run" /\ obs.collected /\ obs.repeat /\ obs.saved # "ok"
    /\ Cardinality(processed_uuids) > SaveCap
    /\ stateFile.kind # "valid"
    /\ \A u \in processed_uuids : emitted[u] = 1
    /\ BatchUuids(obs.batch) = {}

\* C31: the fingerprint is never advanced for a snapshot whose per-model
\* events were not all returned: a collect() that changes _last_stats_hash
\* sets it to the digest of the snapshot it read and returns one per-model
\* event for every model of that snapshot.
C31_FingerprintOnlyAfterAllReturned ==
    [][(obs'.op = "run" /\ last_stats_hash' # last_stats_hash) =>
           /\ last_stats_hash' = Md5(snap.bytes)
           /\ AggregateModels(obs'.batch) = SnapshotModels(snap)]_vars

\* C32: a collect() that finds stats-cache.json absent or not valid JSON
\* leaves _last_stats_hash as it was; and the collect() that then finds the
\* file back with the content last fingerprinted returns no aggregate event.
C32_AbsentOrInvalidKeepsFingerprint ==
    [][(obs'.op = "run" /\ IsConfigured) =>
           /\ snap.json \in {"absent", "invalid"} => last_stats_hash' = last_stats_hash
           /\ (/\ obs'.prevJson \in {"absent", "invalid"}
               /\ snap.json = "object"
               /\ Md5(snap.bytes) = last_stats_hash)
                  => AggregatePart(obs'.batch) = <<>>]_vars

\* the snapshot was fingerprinted, then found absent or invalid, and is back
\* with its models: the collect() over it returned no aggregate event
C32_Witness ==
    /\ obs.op = "run"
    /\ obs.collected
    /\ obs.prevJson \in {"absent", "invalid"}
    /\ snap.json = "object"
    /\ Len(snap.modelUsage) > 0
    /\ obs.hashBefore = Md5(snap.bytes)
    /\ last_stats_hash = Md5(snap.bytes)
    /\ AggregatePart(obs.batch) = <<>>

\* the places (file, line) of the eligible records with the uuid u in the
\* session logs a scan reads
Occurrences(u) ==
    {p \in (Files \ unreadable) \X (1..MaxWrites + MaxDuplicates) :
        /\ p[2] <= Len(logs[p[1]])
        /\ Eligible(logs[p[1]][p[2]])
        /\ logs[p[1]][p[2]].uuid = u}
\* the first of them in scan order
FirstOccurrence(u) ==
    CHOOSE p \in Occurrences(u) :
        \A q \in Occurrences(u) : p[1] < q[1] \/ (p[1] = q[1] /\ p[2] <= q[2])

\* C33: when an identifier the engine has not seen occurs in more than one
\* eligible record of the session logs a collect() reads, the batch holds
\* exactly one session event for it, the event of its first occurrence in
\* scan order.
C33_FirstOccurrenceOnly ==
    [][ScanStep =>
           \A u \in Ids \ processed_uuids :
               Cardinality(Occurrences(u)) > 1 =>
                   /\ CountIn(obs'.batch, u) = 1
                   /\ \E i \in 1..Len(obs'.batch) :
                          obs'.batch[i] =
                              SessionEvent(logs[FirstOccurrence(u)[1]][FirstOccurrence(u)[2]])]_vars

\* the collectors whose run() of the cycle met a raising collect() or a
\* raising write_points()
Raisers == {c \in Collectors : orch.runs[c].fault \in {"collect_raises", "write_raises"}}

\* C34: an exception raised by one collector's collect() or by its sink
\* write is contained to that collector: its run() returns, a cycle is left
\* only when the run() of every collector has returned, for the wait before
\* the next test of the loop, and the loop is left only after a signal.
C34_FailureContained ==
    /\ [](\A c \in Raisers : orch.runs[c].result = "returned")
    /\ [][(orch.phase = "cycle" /\ orch'.phase # "cycle") =>
              /\ \A c \in Collectors : orch.runs[c].result = "returned"
              /\ orch'.phase = "sleep"
              /\ orch'.cycles = orch.cycles]_vars
    /\ [][(orch.phase = "loop" /\ orch.running /\ orch.cycles < MaxCycles) =>
              (orch'.phase \in {"loop", "cycle"} /\ orch'.cycles >= orch.cycles)]_vars
    /\ [](orch.phase \in {"cleanup", "stopped"} => ~orch.running)

\* a collect() or a write raised in the first cycle, while other collectors
\* of that cycle collected; the loop, not signalled, is in its second cycle,
\* every run() of which has returned
C34_Witness ==
    /\ orch.faultedIn = 1
    /\ orch.cycles = 2
    /\ orch.running
    /\ orch.phase = "sleep"
    /\ Raisers # {}
    /\ \E c \in Collectors \ Raisers : orch.runs[c] = [fault |-> "none", result |-> "returned"]

\* C35: once a handler has run (self.running is false) no cycle is started;
\* the loop, unless a run() of the cycle in progress never ends, reaches the
\* end of run(); and at the end of run() close() has been called on every
\* collector, in order, whichever of the calls raised.
C35_ShutdownClosesAll ==
    /\ [][~orch.running => orch'.cycles = orch.cycles /\ ~orch'.running]_vars
    /\ [](orch.phase = "stopped" =>
             /\ ~orch.running
             /\ Len(orch.closed) = Len(CollectorList)
             /\ \A i \in 1..Len(CollectorList) : orch.closed[i].collector = CollectorList[i])
    /\ ((~orch.running /\ orch.phase # "cycle") ~> (orch.phase = "stopped"))
    /\ ((~orch.running /\ \A c \in Collectors : orch.runs[c] # Pending)
            ~> (orch.phase = "stopped"))

\* signalled during a cycle, the loop has ended; a close() raised and the
\* collectors after it were closed all the same
C35_Witness ==
    /\ orch.phase = "stopped"
    /\ orch.signalled = "SIGTERM"
    /\ orch.cycles = 1
    /\ Len(orch.closed) = Len(CollectorList)
    /\ orch.closed[1].outcome = "raises"
    /\ orch.closed[Len(CollectorList)].outcome = "ok"

\* the daily-activity events of a batch, in order
DailyPart(batch) == SelectSeq(batch, LAMBDA e : e.data_type = "daily_activity")
\* the dailyActivity entries of a snapshot whose date parses, in order
ParsedEntries(file) == SelectSeq(file.dailyActivity, LAMBDA d : d.date = "ok")
\* the snapshot has the format of stats-cache.json: every modelUsage entry a
\* mapping, every date a string or missing
SnapshotWellFormed(file) ==
    /\ file.json = "object"
    /\ \A i \in 1..Len(file.modelUsage) : file.modelUsage[i].shape = "dict"
    /\ \A i \in 1..Len(file.dailyActivity) :
           file.dailyActivity[i].date \in {"ok", "unparseable", "absent"}

\* C36: the collect() that finds a well-formed snapshot whose fingerprint it
\* does not hold returns one daily-activity event for each dailyActivity
\* entry whose date parses, in order, stamped at UTC midnight of the entry's
\* day, whatever entries with an unparseable or missing date stand before
\* or between them.
C36_DailyEventPerParsedDate ==
    (/\ obs.op = "run"
     /\ obs.collected
     /\ SnapshotWellFormed(snap)
     /\ obs.hashBefore # Md5(snap.bytes))
        => /\ Len(DailyPart(obs.batch)) = Len(ParsedEntries(snap))
           /\ \A i \in 1..Len(ParsedEntries(snap)) :
                  /\ DailyPart(obs.batch)[i].day = ParsedEntries(snap)[i].day
                  /\ DailyPart(obs.batch)[i].timestamp = "midnight_utc"

\* the batch over a snapshot whose five entries hold the same day twice, an
\* unparseable date and a missing date before the last parsable one
C36_Witness ==
    /\ obs.op = "run"
    /\ obs.collected
    /\ snap = SnapDailies
    /\ obs.hashBefore # Md5(snap.bytes)
    /\ Len(DailyPart(obs.batch)) = 3
    /\ DailyPart(obs.batch)[3].day = 2

\* reading stats-cache.json or taking it apart fails: open or read raises,
\* the content is not a JSON object, an entry of modelUsage is not a mapping
\* or a date is not a string
SnapshotFails(file) ==
    \/ file.json \in {"unreadable", "invalid", "nonobject"}
    \/ /\ file.json = "object"
       /\ \/ \E i \in 1..Len(file.modelUsage) : file.modelUsage[i].shape # "dict"
          \/ \E i \in 1..Len(file.dailyActivity) : file.dailyActivity[i].date = "nonstr"

\* C37: a collect() over a snapshot that cannot be read or parsed returns
\* the session events the session scan makes of the logs (those it returns
\* whatever the snapshot is), adds the identifiers the scan marked to
\* _processed_uuids, and calls _save_state.
C37_SnapshotFailureKeepsSessionScan ==
    [][(obs'.op = "run" /\ IsConfigured /\ SnapshotFails(snap)) =>
           LET sessions == IF dirs = "projects"
                           THEN CollectFromSessions(1, logs, unreadable, <<>>, <<>>,
                                                    processed_uuids)
                           ELSE [points |-> <<>>, marked |-> <<>>]
           IN  /\ obs'.collected
               /\ SessionPart(obs'.batch) = sessions.points
               /\ processed_uuids' = processed_uuids \cup Range(sessions.marked)
               /\ obs'.saved \in SaveOutcomes]_vars

\* the snapshot could not be read or was not JSON; the collect() over it
\* returned a session event and wrote the state file with its identifier
C37_Witness ==
    /\ obs.op = "run"
    /\ snap.json \in {"unreadable", "invalid"}
    /\ SessionPart(obs.batch) # <<>>
    /\ AggregatePart(obs.batch) = <<>>
    /\ obs.saved = "ok"
    /\ stateFile.kind = "valid"
    /\ BatchUuids(obs.batch) \subseteq processed_uuids

\* C38: a collect() entered while the engine is unconfigured returns the
\* empty list and leaves _processed_uuids, _last_stats_hash and the state
\* file as they were, without calling _save_state.
C38_UnconfiguredCollectChangesNothing ==
    [][obs'.op = "collect" =>
           /\ obs'.batch = <<>>
           /\ obs'.saved = "none"
           /\ processed_uuids' = processed_uuids
           /\ last_stats_hash' = last_stats_hash
           /\ stateFile' = stateFile]_vars

\* an engine that holds identifiers and a fingerprint, its ~/.claude gone,
\* has returned from collect() without a save
C38_Witness ==
    /\ obs.op = "collect"
    /\ ~IsConfigured
    /\ processed_uuids # {}
    /\ last_stats_hash # None
    /\ obs.saved = "none"
    /\ obs.batch = <<>>

====
